---- MODULE Spec2Model ----
(***************************************************************************)
(* A model of PathologyDiagnosticEngine (src/PathologyDiagnosticEngine.py).*)
(*                                                                         *)
(* The engine is one Python object.  Its instance fields are the state,    *)
(* its methods are the operations.  A method call is a sequence of steps   *)
(* (pc) over a call frame (frame) and ends by returning a value or raising *)
(* an exception (ret).                                                     *)
(*                                                                         *)
(* Numbers.  IHC reactivity scores are in tenths (0.3 is 3, 1.0 is 10).    *)
(* Confidences and confidence deltas are in hundredths (0.95 is 95).       *)
(* calculate_prior works in thousandths (0.35 is 350).  The operands of    *)
(* bayesian_integration are in hundredths (prior, IHC likelihood) and      *)
(* tenths (morphology likelihood).  A quotient v/total is kept as the pair *)
(* <<v, total>>: the arithmetic is exact, floating-point rounding (the     *)
(* spec's 1e-9 tolerance) is not modelled.                                 *)
(*                                                                         *)
(* Labels.  The source's Chinese string literals are written in ASCII; the *)
(* comment at each definition gives the original.                          *)
(***************************************************************************)
EXTENDS Integers, Sequences, FiniteSets, TLC

VARIABLES
    diagnosis_space,   \* self.diagnosis_space: a list of labels
    confidence,        \* self.confidence, hundredths
    final_diagnosis,   \* self.final_diagnosis: not assigned by __init__
    posterior_probs,   \* self.posterior_probs: not assigned by __init__
    appliedResolutions,\* the report's audit trail written by apply_resolution
    pc,                \* position of the call: "idle", its steps, "done"
    frame,             \* arguments and locals of the current (or last) call
    ret                \* outcome of the last completed call

engine == <<diagnosis_space, confidence, final_diagnosis, posterior_probs,
            appliedResolutions>>
vars == <<diagnosis_space, confidence, final_diagnosis, posterior_probs,
          appliedResolutions, pc, frame, ret>>

(***************************************************************************)
(* Python values                                                           *)
(***************************************************************************)
\* Python's None (a record, so that it compares with dicts).
NoneVal == [none |-> TRUE]

\* An instance attribute that was never assigned: reading it raises
\* AttributeError.
Unset == [unset |-> TRUE]

\* return v
Return(v) == [kind |-> "return", value |-> v]

\* raise exc
Raise(exc) == [kind |-> "raise", exc |-> exc]

\* dict.get(k, default)
Get(d, k, default) == IF k \in DOMAIN d THEN d[k] ELSE default

\* bool(dict.get(k)): a missing key gives None, which is falsy, as is 0.
Truthy(d, k) == k \in DOMAIN d /\ d[k] # 0

Range(s) == {s[i] : i \in DOMAIN s}

\* No call is running and none has completed.
NoFrame == [op |-> "none"]
NoRet == [kind |-> "none"]

(***************************************************************************)
(* IHC panels                                                              *)
(***************************************************************************)
\* Reactivity scores in tenths: negative, focal (0.3), diffuse (1.0).
Score == {0, 3, 10}

\* Markers given the three scores, and markers given negative / diffuse only.
GradedMarkers == {"MDM2", "CDK4", "Myogenin", "Desmin", "Myoglobin"}
BinaryMarkers == {"CK", "EMA", "MyoD1", "S100"}
Markers == GradedMarkers \cup BinaryMarkers

FullPanels ==
    {f \in [Markers -> Score] : \A m \in BinaryMarkers : f[m] # 3}

\* The same panel with its negative markers left out of the dict.
Sparse(f) == [m \in {k \in DOMAIN f : f[k] > 0} |-> f[m]]

Panels == FullPanels \cup {Sparse(f) : f \in FullPanels}

(***************************************************************************)
(* Link 3: the IHC decision tree                                           *)
(***************************************************************************)
\* lineage_markers, in dict (insertion) order.
LineageOrder ==
    <<"smooth_muscle", "skeletal_muscle", "neural", "vascular", "adipocytic">>

LineageMarkers ==
    [smooth_muscle   |-> {"SMA", "Desmin", "Caldesmon"},
     skeletal_muscle |-> {"Myogenin", "Desmin", "MyoD1"},
     neural          |-> {"S100", "SOX10"},
     vascular        |-> {"CD31", "ERG", "CD34"},
     adipocytic      |-> {"MDM2", "CDK4"}]

\* any(ihc_results.get(m, 0) > 0 for m in markers)
LineageActive(ihc, lineage) ==
    \E m \in LineageMarkers[lineage] : Get(ihc, m, 0) > 0

\* The loop that fills activated_pathways.
ActivatedPathways(ihc) ==
    SelectSeq(LineageOrder, LAMBDA l : LineageActive(ihc, l))

\* _rms_subtype: the external subtyping service; its label is opaque.
RmsSubtype(ihc) == "subtype"

\* _liposarcoma_pathway with the joint condition read as "diffusely positive"
\* (score 1.0) instead of "reactive" (score > 0).
LiposarcomaPathwayDiffuseOnly(ihc) ==
    LET mdm2 == Get(ihc, "MDM2", 0)
        cdk4 == Get(ihc, "CDK4", 0)
    IN  IF mdm2 >= 10 /\ cdk4 >= 10
        THEN [diagnosis |->
                 IF Get(ihc, "Myoglobin", 0) > 0
                 THEN IF Get(ihc, "Myogenin", 0) = 0
                      THEN "DDLPS + heterologous myogenic differentiation"
                      ELSE "DDLPS vs RMS collision tumor"
                 ELSE "DDLPS",
              confidence |-> 95,
              recommendation |-> "FISH to confirm MDM2 amplification"]
        ELSE NoneVal

\* _liposarcoma_pathway.  Diagnosis strings of the source:
\*   "DDLPS + 异源性肌源性分化", "DDLPS vs RMS collision tumor", "DDLPS";
\*   recommendation 'FISH确认MDM2扩增'.
LiposarcomaPathway(ihc) ==
    LET mdm2 == Get(ihc, "MDM2", 0)
        cdk4 == Get(ihc, "CDK4", 0)
    IN  IF mdm2 > 0 /\ cdk4 > 0
        THEN [diagnosis |->
                 IF Get(ihc, "Myoglobin", 0) > 0
                 THEN IF Get(ihc, "Myogenin", 0) = 0
                      THEN "DDLPS + heterologous myogenic differentiation"
                      ELSE "DDLPS vs RMS collision tumor"
                 ELSE "DDLPS",
              confidence |-> 95,
              recommendation |-> "FISH to confirm MDM2 amplification"]
        ELSE NoneVal

\* _rhabdomyosarcoma_pathway with the exclusion test written with "or".
RhabdomyosarcomaPathwayLooseExclusion(ihc) ==
    LET myogenin == Get(ihc, "Myogenin", 0)
        desmin   == Get(ihc, "Desmin", 0)
    IN  IF myogenin > 0 /\ desmin > 0
        THEN [diagnosis |-> "RMS (needs subtyping)",
              confidence |-> 90,
              subtyping |-> RmsSubtype(ihc)]
        ELSE IF myogenin = 0 \/ desmin = 0
        THEN [diagnosis |-> "RMS excluded",
              confidence |-> 98,
              alternative |-> "consider other spindle-cell sarcomas"]
        ELSE [diagnosis |-> "Uncertain",
              recommendation |-> "add MyoD1 or molecular testing"]

\* _rhabdomyosarcoma_pathway.  Strings of the source: 'RMS (需分型)',
\*   'RMS excluded' / '考虑其他梭形细胞肉瘤', 'Uncertain' / '补充MyoD1或分子检测'.
RhabdomyosarcomaPathway(ihc) ==
    LET myogenin == Get(ihc, "Myogenin", 0)
        desmin   == Get(ihc, "Desmin", 0)
    IN  IF myogenin > 0 /\ desmin > 0
        THEN [diagnosis |-> "RMS (needs subtyping)",
              confidence |-> 90,
              subtyping |-> RmsSubtype(ihc)]
        ELSE IF myogenin = 0 /\ desmin = 0
        THEN [diagnosis |-> "RMS excluded",
              confidence |-> 98,
              alternative |-> "consider other spindle-cell sarcomas"]
        ELSE [diagnosis |-> "Uncertain",
              recommendation |-> "add MyoD1 or molecular testing"]

\* _epithelial_pathway: called by the tree, defined nowhere in the source.
\* Its result is the terminal epithelial leaf of the specification.
EpithelialPathway == [diagnosis |-> "epithelial", likelihood |-> <<>>]

\* _undifferentiated_pathway: called by the tree, defined nowhere in the
\* source.
UndifferentiatedPathway(ihc) ==
    [diagnosis |-> "undifferentiated", likelihood |-> <<>>]

\* First layer: if ihc_results.get('CK') or ihc_results.get('EMA')
EpithelialGate(ihc) == Truthy(ihc, "CK") \/ Truthy(ihc, "EMA")

\* The third layer with the two sarcoma branches in the other order.
DispatchSkeletalFirst(activated) ==
    IF "skeletal_muscle" \in Range(activated) THEN "rhabdomyosarcoma"
    ELSE IF "adipocytic" \in Range(activated) THEN "liposarcoma"
    ELSE "undifferentiated"

\* Third layer: the if / elif / else over activated_pathways.
Dispatch(activated) ==
    IF "adipocytic" \in Range(activated) THEN "liposarcoma"
    ELSE IF "skeletal_muscle" \in Range(activated) THEN "rhabdomyosarcoma"
    ELSE "undifferentiated"

\* The value the dispatched leaf returns.
LeafResult(leaf, ihc) ==
    CASE leaf = "liposarcoma"      -> LiposarcomaPathway(ihc)
      [] leaf = "rhabdomyosarcoma" -> RhabdomyosarcomaPathway(ihc)
      [] leaf = "undifferentiated" -> UndifferentiatedPathway(ihc)
      [] leaf = "epithelial"       -> EpithelialPathway

\* ihc_decision_tree as one function (used by diagnose).
IhcDecisionTree(ihc) ==
    IF EpithelialGate(ihc)
    THEN EpithelialPathway
    ELSE LeafResult(Dispatch(ActivatedPathways(ihc)), ihc)

\* A caller invokes ihc_decision_tree(ihc_results).
CallIhcDecisionTree ==
    /\ pc = "idle"
    /\ \E p \in Panels :
         frame' = [op |-> "ihc_decision_tree", ihc |-> p,
                   activated_pathways |-> <<>>, evaluated |-> <<>>]
    /\ pc' = "layer1"
    /\ UNCHANGED <<engine, ret>>

\* Layer 1, the lineage gate (lines 72-73).
Layer1 ==
    /\ pc = "layer1"
    /\ IF EpithelialGate(frame.ihc)
       THEN /\ frame' = [frame EXCEPT !.evaluated = Append(@, "epithelial")]
            /\ ret' = Return(LeafResult("epithelial", frame.ihc))
            /\ pc' = "done"
       ELSE /\ pc' = "layer2"
            /\ UNCHANGED <<frame, ret>>
    /\ UNCHANGED engine

\* Layer 2, lineage classification (lines 76-87).
Layer2 ==
    /\ pc = "layer2"
    /\ frame' = [frame EXCEPT
                   !.activated_pathways = ActivatedPathways(frame.ihc)]
    /\ pc' = "layer3"
    /\ UNCHANGED <<engine, ret>>

\* Layer 3, sub-pathway dispatch (lines 90-95): the chosen leaf is evaluated
\* and its value returned.
Layer3 ==
    /\ pc = "layer3"
    /\ LET leaf == Dispatch(frame.activated_pathways)
       IN  /\ frame' = [frame EXCEPT !.evaluated = Append(@, leaf)]
           /\ ret' = Return(LeafResult(leaf, frame.ihc))
    /\ pc' = "done"
    /\ UNCHANGED engine

\* A caller invokes _liposarcoma_pathway(ihc) directly.
CallLiposarcomaPathway ==
    /\ pc = "idle"
    /\ \E p \in Panels :
         /\ frame' = [op |-> "_liposarcoma_pathway", ihc |-> p]
         /\ ret' = Return(LiposarcomaPathway(p))
    /\ pc' = "done"
    /\ UNCHANGED engine

\* A caller invokes _rhabdomyosarcoma_pathway(ihc) directly.
CallRhabdomyosarcomaPathway ==
    /\ pc = "idle"
    /\ \E p \in Panels :
         /\ frame' = [op |-> "_rhabdomyosarcoma_pathway", ihc |-> p]
         /\ ret' = Return(RhabdomyosarcomaPathway(p))
    /\ pc' = "done"
    /\ UNCHANGED engine

(***************************************************************************)
(* Link 1: the prior; link 4: Bayesian integration                         *)
(***************************************************************************)
\* The diagnosis space of src/pys_frame.py, in its order.
AllLabels == <<"DDLPS", "RMS", "UPS", "LMS", "OtherSarcoma">>

\* The longest configured diagnosis space, and the labels the input dicts
\* may carry.
MaxLabels == 2
Labels == {AllLabels[i] : i \in 1..MaxLabels}

\* The spaces a deployment configures: prefixes of AllLabels (non-empty,
\* labels unique).
ConfiguredSpaces == {SubSeq(AllLabels, 1, n) : n \in 1..MaxLabels}

\* sum(d.values()) over integer values.
RECURSIVE SumValues(_)
SumValues(d) ==
    IF DOMAIN d = {} THEN 0
    ELSE LET k == CHOOSE x \in DOMAIN d : TRUE
         IN  d[k] + SumValues([x \in DOMAIN d \ {k} |-> d[x]])

\* Clinical inputs.  Ages around the age > 50 test, sizes (cm) around the
\* size > 15 test, and a negative value of each.  Locations of the source:
\* '大腿深部' (deep thigh), '腹膜后' (retroperitoneum).
Ages == {-1, 0, 50, 51, 59}
Sizes == {-1, 0, 15, 16, 20}
Locations == {"deep thigh", "retroperitoneum", "elsewhere"}
ClinicalFeatures == [age : Ages, location : Locations, size : Sizes]

\* calculate_prior up to the normalisation: prior_probs in thousandths.
PriorProbs(c) ==
    LET base == IF c.age > 50
                THEN [DDLPS |-> 350, RMS |-> 20]
                ELSE [DDLPS |-> 100, RMS |-> 150]
        site == IF c.location \in {"deep thigh", "retroperitoneum"}
                THEN [base EXCEPT !.DDLPS = @ * 2]
                ELSE base
    IN  IF c.size > 15
        THEN [site EXCEPT !.DDLPS = (@ * 3) \div 2]
        ELSE site

\* calculate_prior: {k: v/total}.
CalculatePrior(c) ==
    LET prior_probs == PriorProbs(c)
        total == SumValues(prior_probs)
    IN  [k \in DOMAIN prior_probs |-> <<prior_probs[k], total>>]

\* A caller invokes calculate_prior(clinical_features).
CallCalculatePrior ==
    /\ pc = "idle"
    /\ \E c \in ClinicalFeatures :
         /\ frame' = [op |-> "calculate_prior", clinical_features |-> c]
         /\ ret' = Return(CalculatePrior(c))
    /\ pc' = "done"
    /\ UNCHANGED engine

\* The deployment sets the diagnosis space of a constructed engine (the
\* source never assigns self.diagnosis_space after __init__).
Configure ==
    /\ pc = "idle"
    /\ diagnosis_space = <<>>
    /\ diagnosis_space' \in ConfiguredSpaces
    /\ UNCHANGED <<confidence, final_diagnosis, posterior_probs,
                   appliedResolutions, pc, frame, ret>>

\* Operand values of bayesian_integration: priors and IHC likelihoods in
\* hundredths, morphology likelihoods in tenths; a dict may lack any key.
PriorValues == {0, 35}
IhcLikelihoods == {0, 7}
MorphLikelihoods == {0, 8}
PartialDicts(keys, values) == UNION {[S -> values] : S \in SUBSET keys}

\* One unnormalised posterior unit: hundredths * hundredths * tenths.
Unit == 100 * 100 * 10

\* The loop of bayesian_integration: prior.get(d, 0.01) *
\* (likelihood_ihc.get(d, 0.01) * likelihood_morphology.get(d, 0.5)).
JointPosterior(space, prior, likelihood_ihc, likelihood_morphology) ==
    [d \in Range(space) |->
        Get(prior, d, 1) *
            (Get(likelihood_ihc, d, 1) * Get(likelihood_morphology, d, 5))]

\* bayesian_integration: normalised only if total > 0, otherwise the
\* products are returned as they are.
BayesianIntegration(space, prior, likelihood_ihc, likelihood_morphology) ==
    LET posterior == JointPosterior(space, prior, likelihood_ihc,
                                    likelihood_morphology)
        total == SumValues(posterior)
    IN  IF total > 0
        THEN [k \in DOMAIN posterior |-> <<posterior[k], total>>]
        ELSE [k \in DOMAIN posterior |-> <<posterior[k], Unit>>]

\* A caller invokes bayesian_integration(prior, likelihood_ihc,
\* likelihood_morphology).
CallBayesianIntegration ==
    /\ pc = "idle"
    /\ \E prior \in PartialDicts(Labels, PriorValues),
          li \in PartialDicts(Labels, IhcLikelihoods),
          lm \in PartialDicts(Labels, MorphLikelihoods) :
         /\ frame' = [op |-> "bayesian_integration",
                      prior |-> prior,
                      likelihood_ihc |-> li,
                      likelihood_morphology |-> lm,
                      total |-> SumValues(
                          JointPosterior(diagnosis_space, prior, li, lm))]
         /\ ret' = Return(BayesianIntegration(diagnosis_space, prior, li, lm))
    /\ pc' = "done"
    /\ UNCHANGED engine


(***************************************************************************)
(* Link 2: morphology                                                      *)
(***************************************************************************)
\* What the four feature extractors (extract_cell_type, grade_atypia,
\* count_mitosis, detect_necrosis: external collaborators, not in the
\* source) find in a histology input.  Strings of the source: '梭形细胞'
\* (spindle cell), '高' (high).
Histologies ==
    [cellType : {"spindle cell", "round cell"},
     atypia : {"high", "low"},
     mitosis : {12},
     necrosis : {TRUE}]

\* The features dict of morphology_analysis (keys '细胞类型', '异型性',
\* '核分裂', '坏死').
MorphologyFeatures(histology) ==
    [cellType |-> histology.cellType,
     atypia |-> histology.atypia,
     mitosis |-> histology.mitosis,
     necrosis |-> histology.necrosis]

\* morphology_analysis: candidates is bound only under the spindle-cell
\* test, so the return statement raises for any other cell type.  The
\* candidates of the low-atypia branch are ['WDLPS', '纤维瘤病'].
MorphologyAnalysis(histology) ==
    LET features == MorphologyFeatures(histology)
    IN  IF features.cellType = "spindle cell"
        THEN Return(<<IF features.atypia = "high"
                      THEN <<"DDLPS", "UPS", "LMS", "MPNST">>
                      ELSE <<"WDLPS", "fibromatosis">>,
                      features>>)
        ELSE Raise("UnboundLocalError")

(***************************************************************************)
(* Link 5: conflict resolution                                             *)
(***************************************************************************)
\* The conflict types resolve_conflicts tests for, and a type of the
\* catalog it has no branch for.
MolecularConflict == "MDM2+ but morphology atypical"
HeterologousConflict == "Myoglobin+ but Myogenin-"
OtherConflict == "other conflict type"
ConflictTypes == {MolecularConflict, HeterologousConflict, OtherConflict}

\* The longest list detect_conflicts returns, and the longest audit trail
\* after which further resolve_conflicts calls are not explored.
MaxConflicts == 3
MaxApplied == 4

\* detect_conflicts (not in the source): any list of conflicts.
ConflictLists ==
    UNION {[1..n -> [type : ConflictTypes]] : n \in 0..MaxConflicts}

\* The two resolution dicts.  Strings of the source:
\*   '保持DDLPS诊断，注释形态学变异', '异源性分化而非原发RMS'.
MolecularResolution ==
    [priority |-> "molecular",
     action |-> "keep the DDLPS diagnosis, annotate the morphologic variant",
     confidence_penalty |-> -5]
ExclusionResolution ==
    [priority |-> "exclusion_logic",
     interpretation |-> "heterologous differentiation, not primary RMS",
     confidence_boost |-> 10]

\* The local variable resolution before its first assignment.
Unbound == [unbound |-> TRUE]

\* The if / elif of the loop body: resolution is assigned in the two
\* branches and keeps its previous value otherwise.
ResolutionAfter(conflict, resolution) ==
    IF conflict.type = MolecularConflict THEN MolecularResolution
    ELSE IF conflict.type = HeterologousConflict THEN ExclusionResolution
    ELSE resolution

\* The working confidence after a resolution, clamped to [0, 1].
Clamp(c) == IF c < 0 THEN 0 ELSE IF c > 100 THEN 100 ELSE c
ConfidenceAfter(c, resolution) ==
    Clamp(c + Get(resolution, "confidence_penalty", 0)
            + Get(resolution, "confidence_boost", 0))

\* A caller invokes resolve_conflicts(evidence_dict); detect_conflicts
\* returns its list.
CallResolveConflicts ==
    /\ pc = "idle"
    /\ \E conflicts \in ConflictLists :
         /\ Len(appliedResolutions) + Len(conflicts) <= MaxApplied
         /\ frame' = [op |-> "resolve_conflicts",
                      conflicts |-> conflicts,
                      i |-> 1,
                      resolution |-> Unbound,
                      applied |-> <<>>,
                      trail_at_call |-> appliedResolutions]
    /\ pc' = "for_conflict"
    /\ UNCHANGED <<engine, ret>>

\* One iteration of the for loop (lines 185-202), apply_resolution included:
\* apply_resolution (not in the source) adds the delta to the working
\* confidence, appends the resolution to the audit trail and stores the
\* record that resolve_conflicts returns.  Reading the unbound local raises.
ForConflict ==
    /\ pc = "for_conflict"
    /\ frame.i <= Len(frame.conflicts)
    /\ LET resolution ==
               ResolutionAfter(frame.conflicts[frame.i], frame.resolution)
       IN  IF resolution = Unbound
           THEN /\ ret' = Raise("UnboundLocalError")
                /\ pc' = "done"
                /\ UNCHANGED <<frame, engine>>
           ELSE /\ confidence' = ConfidenceAfter(confidence, resolution)
                /\ appliedResolutions' = Append(appliedResolutions, resolution)
                /\ final_diagnosis' =
                       [confidence |-> confidence',
                        appliedResolutions |-> appliedResolutions']
                /\ frame' = [frame EXCEPT
                               !.i = @ + 1,
                               !.resolution = resolution,
                               !.applied = Append(@, resolution)]
                /\ UNCHANGED <<diagnosis_space, posterior_probs, pc, ret>>

\* return self.final_diagnosis (line 204).
ReturnFinalDiagnosis ==
    /\ pc = "for_conflict"
    /\ frame.i > Len(frame.conflicts)
    /\ ret' = IF final_diagnosis = Unset
              THEN Raise("AttributeError")
              ELSE Return(final_diagnosis)
    /\ pc' = "done"
    /\ UNCHANGED <<frame, engine>>

(***************************************************************************)
(* Link 6: uncertainty                                                     *)
(***************************************************************************)
\* uncertainty_quantification (lines 212-220) over the value of
\* self.posterior_probs: the attribute is read first; np is not imported, so
\* the first p > 0 raises NameError; max() of an empty dict raises
\* ValueError; bootstrap_ci is not defined.
UncertaintyQuantification(posterior) ==
    IF posterior = Unset THEN Raise("AttributeError")
    ELSE IF \E k \in DOMAIN posterior : posterior[k][1] > 0
    THEN Raise("NameError")
    ELSE IF DOMAIN posterior = {} THEN Raise("ValueError")
    ELSE Raise("AttributeError")

\* A caller invokes uncertainty_quantification().
CallUncertaintyQuantification ==
    /\ pc = "idle"
    /\ frame' = [op |-> "uncertainty_quantification",
                 posterior_read |-> posterior_probs]
    /\ ret' = UncertaintyQuantification(posterior_probs)
    /\ pc' = "done"
    /\ UNCHANGED engine

(***************************************************************************)
(* The main flow                                                           *)
(***************************************************************************)
\* The cases diagnose is run on: the end-to-end scenario of the
\* specification (age 59, deep thigh, 20 cm), a negative age, each
\* histology, and the panels over the five graded markers and CK.
DiagnoseCases ==
    [clinical : {c \in ClinicalFeatures :
                    /\ c.age \in {-1, 59}
                    /\ c.location = "deep thigh"
                    /\ c.size = 20},
     histology : Histologies,
     ihc : {p \in FullPanels :
              \A m \in BinaryMarkers \ {"CK"} : p[m] = 0}]

\* Step 4 up to the call (lines 259-263): the arguments are evaluated left
\* to right.  ihc_result['likelihood'] raises TypeError on None and KeyError
\* on a dict without the key; morph_features['likelihood'] raises KeyError,
\* the features dict having no such key.
LikelihoodArguments(ihc_result, morph_features) ==
    IF ihc_result = NoneVal THEN Raise("TypeError")
    ELSE IF "likelihood" \notin DOMAIN ihc_result THEN Raise("KeyError")
    ELSE IF "likelihood" \notin DOMAIN morph_features THEN Raise("KeyError")
    ELSE Return(<<ihc_result.likelihood, morph_features.likelihood>>)

\* diagnose, steps 1 to 4.  Steps 5 to 7 (lines 265-281) are never reached:
\* the features dict built at lines 50-55 has no 'likelihood' key, so line
\* 262 raises whenever line 261 does not.
Diagnose(case_data) ==
    LET prior == CalculatePrior(case_data.clinical)
        morphology == MorphologyAnalysis(case_data.histology)
        ihc_result == IhcDecisionTree(case_data.ihc)
    IN  IF morphology.kind = "raise"
        THEN [prior |-> prior, ret |-> morphology]
        ELSE [prior |-> prior,
              morph_features |-> morphology.value[2],
              ihc_result |-> ihc_result,
              ret |-> LikelihoodArguments(ihc_result, morphology.value[2])]

\* A caller invokes diagnose(case_data).
CallDiagnose ==
    /\ pc = "idle"
    /\ \E case_data \in DiagnoseCases :
         LET run == Diagnose(case_data)
         IN  /\ frame' = [op |-> "diagnose", case_data |-> case_data,
                          locals |-> [k \in DOMAIN run \ {"ret"} |-> run[k]]]
             /\ ret' = run.ret
    /\ pc' = "done"
    /\ UNCHANGED engine


\* The caller takes the outcome of the finished call; the engine is ready
\* for the next call.  Only the instance fields outlive a call.
Resume ==
    /\ pc = "done"
    /\ pc' = "idle"
    /\ frame' = NoFrame
    /\ ret' = NoRet
    /\ UNCHANGED engine

(***************************************************************************)
(* Construction and specifications                                         *)
(***************************************************************************)
\* __init__ (lines 7-13).  final_diagnosis and posterior_probs are not
\* assigned.
Init ==
    /\ diagnosis_space = <<>>
    /\ confidence = 0
    /\ final_diagnosis = Unset
    /\ posterior_probs = Unset
    /\ appliedResolutions = <<>>
    /\ pc = "idle"
    /\ frame = NoFrame
    /\ ret = NoRet

NextIhc ==
    \/ CallIhcDecisionTree
    \/ Layer1
    \/ Layer2
    \/ Layer3
    \/ CallLiposarcomaPathway
    \/ CallRhabdomyosarcomaPathway
    \/ Resume

SpecIhc == Init /\ [][NextIhc]_vars

Next ==
    \/ CallDiagnose
    \/ CallResolveConflicts
    \/ ForConflict
    \/ ReturnFinalDiagnosis
    \/ CallUncertaintyQuantification
    \/ Resume

Spec == Init /\ [][Next]_vars

NextBayes ==
    \/ Configure
    \/ CallCalculatePrior
    \/ CallBayesianIntegration
    \/ Resume

SpecBayes == Init /\ [][NextBayes]_vars

(***************************************************************************)
(* Properties of the IHC decision tree (SpecIhc)                           *)
(***************************************************************************)
\* The score of a marker in a panel; an unlisted marker counts as 0.
Reactive(ihc, m) == m \in DOMAIN ihc /\ ihc[m] > 0

\* r is a dict carrying exactly this diagnosis and this confidence.
Matches(r, diagnosis, conf) ==
    /\ "diagnosis" \in DOMAIN r
    /\ r.diagnosis = diagnosis
    /\ "confidence" \in DOMAIN r
    /\ r.confidence = conf

\* The rhabdomyosarcoma sub-pathway has run: called directly, or as the leaf
\* the tree dispatched to.
RmsRan ==
    /\ pc = "done"
    /\ \/ frame.op = "_rhabdomyosarcoma_pathway"
       \/ /\ frame.op = "ihc_decision_tree"
          /\ frame.evaluated = <<"rhabdomyosarcoma">>

\* The liposarcoma sub-pathway has run.
LipoRan ==
    /\ pc = "done"
    /\ \/ frame.op = "_liposarcoma_pathway"
       \/ /\ frame.op = "ihc_decision_tree"
          /\ frame.evaluated = <<"liposarcoma">>

\* C1: the rhabdomyosarcoma sub-pathway returns the positive match with
\* confidence 0.90 exactly when Myogenin and Desmin are both reactive, "RMS
\* excluded" with confidence 0.98 exactly when both are non-reactive, and
\* "Uncertain" with no confidence key exactly when one and only one is
\* reactive; the three outcomes exclude each other and cover every panel.
C1_RmsTruthTable ==
    RmsRan =>
        LET r == ret.value
            g == Reactive(frame.ihc, "Myogenin")
            d == Reactive(frame.ihc, "Desmin")
            match     == Matches(r, "RMS (needs subtyping)", 90)
            excluded  == Matches(r, "RMS excluded", 98)
            uncertain == /\ "diagnosis" \in DOMAIN r
                         /\ r.diagnosis = "Uncertain"
                         /\ "confidence" \notin DOMAIN r
        IN  /\ ret.kind = "return"
            /\ match <=> (g /\ d)
            /\ excluded <=> (~g /\ ~d)
            /\ uncertain <=> (g # d)
            /\ Cardinality({b \in {"m", "e", "u"} :
                   \/ b = "m" /\ match
                   \/ b = "e" /\ excluded
                   \/ b = "u" /\ uncertain}) = 1

\* C1 witness: a focally reactive Myogenin with a negative Desmin went
\* through the sub-pathway and came out "Uncertain".
C1_Witness ==
    /\ RmsRan
    /\ Get(frame.ihc, "Myogenin", 0) = 3
    /\ ~Reactive(frame.ihc, "Desmin")
    /\ ret.value.diagnosis = "Uncertain"

\* C2: the liposarcoma sub-pathway returns None exactly when MDM2 or CDK4 is
\* non-reactive; with both reactive (any score > 0) it returns confidence
\* 0.95 and the heterologous-differentiation label when Myoglobin is
\* reactive and Myogenin is not, the collision-tumor label when both are
\* reactive, and plain DDLPS when Myoglobin is non-reactive.
C2_LiposarcomaTable ==
    LipoRan =>
        LET r == ret.value
            m == Reactive(frame.ihc, "MDM2")
            c == Reactive(frame.ihc, "CDK4")
            y == Reactive(frame.ihc, "Myoglobin")
            g == Reactive(frame.ihc, "Myogenin")
        IN  /\ ret.kind = "return"
            /\ (r = NoneVal) <=> (~m \/ ~c)
            /\ (m /\ c) =>
                 /\ y /\ ~g =>
                      Matches(r,
                        "DDLPS + heterologous myogenic differentiation", 95)
                 /\ y /\ g =>
                      /\ Matches(r, "DDLPS vs RMS collision tumor", 95)
                      /\ r.diagnosis \notin {"DDLPS", "RMS (needs subtyping)"}
                 /\ ~y => Matches(r, "DDLPS", 95)

\* C2 witness: MDM2 diffuse, CDK4 focal (0.3), Myoglobin and Myogenin both
\* reactive: the collision-tumor label was returned.
C2_Witness ==
    /\ LipoRan
    /\ Get(frame.ihc, "MDM2", 0) = 10
    /\ Get(frame.ihc, "CDK4", 0) = 3
    /\ Reactive(frame.ihc, "Myoglobin")
    /\ Reactive(frame.ihc, "Myogenin")
    /\ ret.value.diagnosis = "DDLPS vs RMS collision tumor"

\* The leaf the fixed priority names for a panel, read off the markers.
ExpectedLeaf(ihc) ==
    IF Reactive(ihc, "CK") \/ Reactive(ihc, "EMA") THEN "epithelial"
    ELSE IF Reactive(ihc, "MDM2") \/ Reactive(ihc, "CDK4") THEN "liposarcoma"
    ELSE IF \/ Reactive(ihc, "Myogenin")
            \/ Reactive(ihc, "Desmin")
            \/ Reactive(ihc, "MyoD1") THEN "rhabdomyosarcoma"
    ELSE "undifferentiated"

\* C3: ihc_decision_tree evaluates exactly one leaf pathway, the one the
\* fixed priority epithelial > liposarcoma > rhabdomyosarcoma >
\* undifferentiated names, and returns that leaf's value; while the call
\* runs no leaf has been evaluated before the routing layer is reached.
C3_OneLeafByPriority ==
    frame.op = "ihc_decision_tree" =>
        /\ pc # "done" => frame.evaluated = <<>>
        /\ pc = "done" =>
             /\ frame.evaluated = <<ExpectedLeaf(frame.ihc)>>
             /\ ret = Return(LeafResult(ExpectedLeaf(frame.ihc), frame.ihc))

\* C3 witness: adipocytic and skeletal_muscle are both activated, no
\* epithelial marker is reactive, and only the liposarcoma leaf was
\* evaluated.
C3_Witness ==
    /\ pc = "done"
    /\ frame.op = "ihc_decision_tree"
    /\ ~EpithelialGate(frame.ihc)
    /\ "adipocytic" \in Range(frame.activated_pathways)
    /\ "skeletal_muscle" \in Range(frame.activated_pathways)
    /\ frame.evaluated = <<"liposarcoma">>

\* C9: with no epithelial marker reactive and Myogenin and Desmin both
\* reactive, ihc_decision_tree never returns None.
C9_CoActivationKeepsEvidence ==
    ( /\ pc = "done"
      /\ frame.op = "ihc_decision_tree"
      /\ ~Reactive(frame.ihc, "CK")
      /\ ~Reactive(frame.ihc, "EMA")
      /\ Reactive(frame.ihc, "Myogenin")
      /\ Reactive(frame.ihc, "Desmin") )
    => ret.value # NoneVal

(***************************************************************************)
(* Properties of the prior and of the integration (SpecBayes)              *)
(***************************************************************************)
\* d is a probability distribution: every value v/total is >= 0 and the
\* values, which share their denominator, sum to 1.
IsDistribution(d) ==
    /\ \A k \in DOMAIN d : d[k][1] >= 0 /\ d[k][2] > 0
    /\ \E total \in {d[k][2] : k \in DOMAIN d} :
         /\ \A k \in DOMAIN d : d[k][2] = total
         /\ SumValues([k \in DOMAIN d |-> d[k][1]]) = total

\* C4: every distribution returned by calculate_prior (for age >= 0 and
\* size >= 0) and by bayesian_integration has values >= 0 summing to 1,
\* whatever the diagnosis space is; the posterior has one entry per label of
\* the diagnosis space.
C4_DistributionsSumToOne ==
    /\ ( /\ pc = "done"
         /\ frame.op = "calculate_prior"
         /\ frame.clinical_features.age >= 0
         /\ frame.clinical_features.size >= 0
         /\ ret.kind = "return" )
       => IsDistribution(ret.value)
    /\ (pc = "done" /\ frame.op = "bayesian_integration")
       => /\ ret.kind = "return"
          /\ DOMAIN ret.value = Range(diagnosis_space)
          /\ IsDistribution(ret.value)

\* C5: when the diagnosis space is configured and every label's product
\* prior * likelihood_ihc * likelihood_morphology is zero,
\* bayesian_integration raises DegenerateEvidenceError and returns no
\* distribution.
C5_DegenerateEvidenceRaises ==
    ( /\ pc = "done"
      /\ frame.op = "bayesian_integration"
      /\ diagnosis_space # <<>>
      /\ frame.total = 0 )
    => ret = Raise("DegenerateEvidenceError")

\* C8: calculate_prior raises InvalidInputError, returning no distribution,
\* whenever age < 0 or size < 0.
C8_NegativeInputRaises ==
    ( /\ pc = "done"
      /\ frame.op = "calculate_prior"
      /\ \/ frame.clinical_features.age < 0
         \/ frame.clinical_features.size < 0 )
    => ret = Raise("InvalidInputError")

(***************************************************************************)
(* Properties of the main flow, of conflict resolution and of the          *)
(* uncertainty step (Spec)                                                 *)
(***************************************************************************)
\* C6: when ihc_decision_tree returns None inside diagnose, the run does not
\* fail with the error of reading a field of None.
C6_NoMatchIsBranchedOn ==
    ( /\ pc = "done"
      /\ frame.op = "diagnose"
      /\ "ihc_result" \in DOMAIN frame.locals
      /\ frame.locals.ihc_result = NoneVal )
    => ret # Raise("TypeError")

\* The resolution r is the one defined for a conflict of this type; a type
\* without a branch of its own gets neither of the two.
OwnResolution(type, r) ==
    /\ type = MolecularConflict =>
         r.priority = "molecular" /\ ConfidenceAfter(50, r) = 45
    /\ type = HeterologousConflict =>
         r.priority = "exclusion_logic" /\ ConfidenceAfter(50, r) = 60
    /\ type \notin {MolecularConflict, HeterologousConflict} =>
         r.priority \notin {"molecular", "exclusion_logic"}

\* C7: in resolve_conflicts the resolutions applied so far are, in detection
\* order, the ones defined for the kinds of the conflicts they were applied
\* for (never the resolution of an earlier conflict again), and they are
\* appended to the audit trail without overwriting its earlier entries.
C7_ResolutionMatchesItsConflict ==
    frame.op = "resolve_conflicts" =>
        /\ Len(frame.applied) <= Len(frame.conflicts)
        /\ \A j \in 1..Len(frame.applied) :
             OwnResolution(frame.conflicts[j].type, frame.applied[j])
        /\ appliedResolutions = frame.trail_at_call \o frame.applied

====
